---- MODULE Spec2Model ----
(***************************************************************************)
(* PeakRequests (src/lib.rs): a builder-configured blocking HTTP client.   *)
(* The client value holds its configuration and a lazily built transport   *)
(* handle; every verb method goes through the private dispatcher _request. *)
(* Option<T> is modelled as a set: None is {}, Some(x) is {x}.             *)
(***************************************************************************)
EXTENDS Naturals, Sequences, FiniteSets, TLC

VARIABLES
    self,    \* the PeakRequests value: client, headers, timeout, allow_redirects, max_redirects
    fresh,   \* the constructor that made the value while nothing has acted on it yet, else "no"
    call     \* the most recent operation on the value: which one, what its dispatch
             \* did (construction attempted, sends, the request handed to send(),
             \* requests that reached the server) and the Result it returned

vars == <<self, fresh, call>>

(* ------------------------------ bounds --------------------------------- *)

\* most entries of a header map passed to headers(...)
MaxHeaders == 2
\* largest count passed to max_redirects(...)
MaxRedirects == 2
\* longest redirect chain a requested URL starts
MaxChain == 3

(* --------------------------- Option helpers ---------------------------- *)

None == {}
Some(x) == {x}
Unwrap(o) == CHOOSE x \in o : TRUE

(* ------------------------------ inputs --------------------------------- *)

\* header names a caller may put in the map: two that differ only in letter
\* case, and one that is not a valid HTTP token (it holds a space)
HeaderNames == {"Accept", "accept", "b d"}
\* header values: two valid ones and one holding a line feed
HeaderValues == {"x", "y", "z\n"}
\* HashMap<String, String>: keys are compared byte for byte
HeaderMaps ==
    UNION {[d -> HeaderValues] : d \in {s \in SUBSET HeaderNames : Cardinality(s) <= MaxHeaders}}
EmptyMap == [k \in {} |-> "x"]
\* timeout(seconds) arguments
Timeouts == {1, 10}
\* max_redirects(max) arguments
RedirectCounts == 0..MaxRedirects
\* a URL is named by the length of the redirect chain it starts: URL n > 0
\* answers 302 with Location URL n-1, URL 0 answers 200
Urls == 0..MaxChain
\* the method strings the dispatcher may be handed
Methods == {"GET", "POST", "PUT", "DELETE", "PATCH", "get"}
\* Option<HashMap<&str, &str>> and Option<Value> payload arguments
DataArgs == {None, Some("key1=value1")}
JsonArgs == {None, Some("{\"name\":\"greg\"}")}
\* what the network does to one send: answer, fail the send, or answer with
\* status and headers and then fail while the body is read as text
NetOutcomes == {"ok", "send_error", "body_error"}

(* ---------------------- constructors and builders ---------------------- *)

\* PeakRequests::new()
new ==
    [client |-> None, headers |-> EmptyMap, timeout |-> None,
     allow_redirects |-> TRUE, max_redirects |-> 10]

\* #[derive(Default)]: every field is its type's Default (None, empty map,
\* None, false, 0)
default ==
    [client |-> None, headers |-> EmptyMap, timeout |-> None,
     allow_redirects |-> FALSE, max_redirects |-> 0]

\* self.headers = headers
set_headers(s, h) == [s EXCEPT !.headers = h]

\* self.timeout = Some(seconds)
set_timeout(s, seconds) == [s EXCEPT !.timeout = Some(seconds)]

\* self.allow_redirects = allow
set_allow_redirects(s, allow) == [s EXCEPT !.allow_redirects = allow]

\* self.max_redirects = max
set_max_redirects(s, max) == [s EXCEPT !.max_redirects = max]

(* --------------------- transport handle construction ------------------- *)

\* header::HeaderName::from_bytes: Err for a name that is not an HTTP token,
\* else the name in lower case (HeaderName compares case-insensitively)
HeaderName_from_bytes(key) ==
    CASE key = "Accept" -> Some("accept")
      [] key = "accept" -> Some("accept")
      [] OTHER -> None

\* header::HeaderValue::from_str: Err for a value with a control character
HeaderValue_from_str(value) ==
    IF value \in {"x", "y"} THEN Some(value) ELSE None

\* HeaderMap::insert: the entry of that name is replaced
HeaderMap_insert(map, name, value) ==
    [k \in (DOMAIN map) \cup {name} |-> IF k = name THEN value ELSE map[k]]

\* the loop over &self.headers, taken in the iteration order `order` of the
\* HashMap; the first invalid name or value returns Err through `?`
RECURSIVE insert_headers(_, _, _, _)
insert_headers(map, src, order, i) ==
    IF i > Len(order) THEN [ok |-> TRUE, map |-> map, err |-> ""]
    ELSE LET key == order[i]
             name == HeaderName_from_bytes(key)
             value == HeaderValue_from_str(src[key])
         IN IF name = None THEN [ok |-> FALSE, map |-> map, err |-> "invalid HTTP header name"]
            ELSE IF value = None
                 THEN [ok |-> FALSE, map |-> map, err |-> "failed to parse header value"]
            ELSE insert_headers(HeaderMap_insert(map, Unwrap(name), Unwrap(value)), src, order, i + 1)

\* a variant that limits redirects whether or not they are allowed
redirect_policy_ignores_allow(s) == [kind |-> "limited", max |-> s.max_redirects]

\* Policy::limited(self.max_redirects) if self.allow_redirects, else Policy::none()
redirect_policy(s) ==
    IF s.allow_redirects THEN [kind |-> "limited", max |-> s.max_redirects]
    ELSE [kind |-> "none", max |-> 0]

\* a variant that returns Ok(()) when construction failed
init_client_swallows_error(s, env) ==
    LET hdrs == IF DOMAIN s.headers # {}
                THEN insert_headers(EmptyMap, s.headers, env.order, 1)
                ELSE [ok |-> TRUE, map |-> EmptyMap, err |-> ""]
    IN IF hdrs.ok /\ env.engine_ok
       THEN [ok |-> TRUE, err |-> "",
             self |-> [s EXCEPT !.client =
                 Some([default_headers |-> hdrs.map, timeout |-> s.timeout,
                       redirect |-> redirect_policy(s)])]]
       ELSE [ok |-> TRUE, self |-> s, err |-> ""]

\* a variant that stores a handle before the checks that may fail
init_client_caches_on_error(s, env) ==
    LET hdrs == IF DOMAIN s.headers # {}
                THEN insert_headers(EmptyMap, s.headers, env.order, 1)
                ELSE [ok |-> TRUE, map |-> EmptyMap, err |-> ""]
        built == [s EXCEPT !.client =
                     Some([default_headers |-> hdrs.map, timeout |-> s.timeout,
                           redirect |-> redirect_policy(s)])]
    IN IF ~hdrs.ok THEN [ok |-> FALSE, self |-> built, err |-> hdrs.err]
       ELSE IF ~env.engine_ok THEN [ok |-> FALSE, self |-> built, err |-> "builder error"]
       ELSE [ok |-> TRUE, self |-> built, err |-> ""]

\* init_client(&mut self) -> Result<(), String>. env.order is the HashMap's
\* iteration order, env.engine_ok whether Client::builder().build() succeeds.
\* self.client is assigned only when every `?` before it passed.
init_client(s, env) ==
    LET hdrs == IF DOMAIN s.headers # {}
                THEN insert_headers(EmptyMap, s.headers, env.order, 1)
                ELSE [ok |-> TRUE, map |-> EmptyMap, err |-> ""]
    IN IF ~hdrs.ok THEN [ok |-> FALSE, self |-> s, err |-> hdrs.err]
       ELSE IF ~env.engine_ok THEN [ok |-> FALSE, self |-> s, err |-> "builder error"]
       ELSE [ok |-> TRUE, err |-> "",
             self |-> [s EXCEPT !.client =
                 Some([default_headers |-> hdrs.map, timeout |-> s.timeout,
                       redirect |-> redirect_policy(s)])]]

(* ------------------------- transport and server ------------------------ *)

\* The test server and the transport's redirect handling behind send(): URL n > 0
\* answers 302 with Location n-1 and URL 0 answers 200. Policy::none() returns
\* the 302 as it is; Policy::limited(max) follows up to max redirects and fails
\* on the next one. `followed` counts the redirects followed so far.
RECURSIVE follow(_, _, _)
follow(policy, url, followed) ==
    IF url = 0
    THEN [served |-> followed + 1, error |-> None, status_code |-> 200, url |-> url,
          headers |-> [content_type |-> "text/plain"]]
    ELSE IF policy.kind = "none"
    THEN [served |-> followed + 1, error |-> None, status_code |-> 302, url |-> url,
          headers |-> [location |-> ToString(url - 1)]]
    ELSE IF followed + 1 > policy.max
    THEN [served |-> followed + 1, error |-> Some("too many redirects"), status_code |-> 0,
          url |-> url, headers |-> EmptyMap]
    ELSE follow(policy, url - 1, followed + 1)

\* a variant that sends a second time when the send or the body read fails
send_and_read_retries(client, request, net) ==
    LET got == follow(client.redirect, request.url, 0)
    IN IF net = "send_error"
       THEN [sends |-> 2, served |-> 0, response |-> None, error |-> Some("error sending request")]
       ELSE IF got.error # None
       THEN [sends |-> 1, served |-> got.served, response |-> None, error |-> got.error]
       ELSE IF net = "body_error"
       THEN [sends |-> 2, served |-> 2 * got.served, response |-> None,
             error |-> Some("error decoding response body")]
       ELSE [sends |-> 1, served |-> got.served, error |-> None,
             response |-> Some([status_code |-> got.status_code, text |-> "body",
                                headers |-> got.headers, url |-> got.url])]

\* request_builder.send().map_err(..)? and everything after it: status, url and
\* headers are taken from the response, then response.text().map_err(..)?
\* reads the body; either `?` returns Err and drops what was gathered.
send_and_read(client, request, net) ==
    LET got == follow(client.redirect, request.url, 0)
    IN IF net = "send_error"
       THEN [sends |-> 1, served |-> 0, response |-> None, error |-> Some("error sending request")]
       ELSE IF got.error # None
       THEN [sends |-> 1, served |-> got.served, response |-> None, error |-> got.error]
       ELSE IF net = "body_error"
       THEN [sends |-> 1, served |-> got.served, response |-> None,
             error |-> Some("error decoding response body")]
       ELSE [sends |-> 1, served |-> got.served, error |-> None,
             response |-> Some([status_code |-> got.status_code, text |-> "body",
                                headers |-> got.headers, url |-> got.url])]

(* ------------------------------ dispatcher ----------------------------- *)

\* client.get(url) / post / put / delete: a request builder for that method,
\* carrying the handle's default headers and timeout and no body
new_request(client, method, url) ==
    [method |-> method, url |-> url, headers |-> client.default_headers,
     timeout |-> client.timeout, applied |-> {}, body |-> None, content_type |-> None]

\* RequestBuilder::form: the body becomes the URL-encoded form, and the
\* content type is set unless the request already has one
form(request, form_data) ==
    [request EXCEPT !.applied = @ \cup {"form"}, !.body = Some(form_data),
        !.content_type = IF @ = None THEN Some("application/x-www-form-urlencoded") ELSE @]

\* RequestBuilder::json: the body becomes the serialized value, and the
\* content type is set unless the request already has one
json(request, json_data) ==
    [request EXCEPT !.applied = @ \cup {"json"}, !.body = Some(json_data),
        !.content_type = IF @ = None THEN Some("application/json") ELSE @]

\* if let Some(form_data) = data { .form(..) }; if let Some(json_data) = json { .json(..) }
attach_payload(request, data, json_arg) ==
    LET r1 == IF data # None THEN form(request, Unwrap(data)) ELSE request
    IN IF json_arg # None THEN json(r1, Unwrap(json_arg)) ELSE r1

\* what a call returns and does when it ends before any request exists
no_request(s, init_called, panicked, error) ==
    [self |-> s, init_called |-> init_called, panicked |-> panicked, sends |-> 0,
     sent |-> None, served |-> 0, response |-> None, error |-> error]

\* a variant that builds again whenever the configuration no longer matches the handle
client_is_stale(s) ==
    \/ s.client = None
    \/ Unwrap(s.client).timeout # s.timeout
    \/ Unwrap(s.client).redirect # redirect_policy(s)
    \/ (DOMAIN s.headers = {}) # (DOMAIN Unwrap(s.client).default_headers = {})

\* self.client.is_none()
client_is_none(s) == s.client = None

\* a variant that compares the method without regard to letter case
match_method_ignoring_case(method) ==
    CASE method \in {"GET", "POST", "PUT", "DELETE"} -> Some(method)
      [] method = "get" -> Some("GET")
      [] OTHER -> None

\* match method { "GET" => .., "POST" => .., "PUT" => .., "DELETE" => .., _ => return Err(..) }
match_method(method) ==
    IF method \in {"GET", "POST", "PUT", "DELETE"} THEN Some(method) ELSE None

\* _request(&mut self, method, url, data, json) -> Result<Response, String>:
\* build the handle if there is none, unwrap it, match the method, attach the
\* payload, send and read. `panicked` is the unwrap meeting None.
_request(s, method, url, data, json_arg, env) ==
    LET init_called == client_is_none(s)
        init == IF init_called THEN init_client(s, env) ELSE [ok |-> TRUE, self |-> s, err |-> ""]
        s1 == init.self
        matched == match_method(method)
    IN IF ~init.ok THEN no_request(s1, init_called, FALSE, Some(init.err))
       ELSE IF s1.client = None THEN no_request(s1, init_called, TRUE, None)
       ELSE IF matched = None
       THEN no_request(s1, init_called, FALSE, Some("unsupported HTTP method"))
       ELSE LET client == Unwrap(s1.client)
                request == attach_payload(new_request(client, Unwrap(matched), url), data, json_arg)
                io == send_and_read(client, request, env.net)
            IN [self |-> s1, init_called |-> init_called, panicked |-> FALSE,
                sends |-> io.sends, sent |-> Some(request), served |-> io.served,
                response |-> io.response, error |-> io.error]

(* ------------------------------ environment --------------------------- *)

\* the orders in which a HashMap with key set S may be iterated
RECURSIVE Orders(_)
Orders(S) ==
    IF S = {} THEN {<<>>}
    ELSE UNION {{<<k>> \o rest : rest \in Orders(S \ {k})} : k \in S}

\* what a call's environment may do: the map's iteration order and the engine's
\* build outcome matter only when the handle is still to be built
Envs(s, nets) ==
    IF s.client = None
    THEN [order : Orders(DOMAIN s.headers), engine_ok : BOOLEAN, net : nets]
    ELSE [order : {<<>>}, engine_ok : {TRUE}, net : nets]

(* -------------------------------- actions ------------------------------ *)

\* the record of an operation that dispatched nothing (a constructor, a builder)
NoCall ==
    [op |-> "none", method |-> "", init_called |-> FALSE, sends |-> 0, panicked |-> FALSE,
     net |-> "unused", sent |-> None, served |-> 0, response |-> None, error |-> None]

\* the record of one dispatch d made from the method `op`
Called(op, method, env, d) ==
    [op |-> op, method |-> method, init_called |-> d.init_called, sends |-> d.sends,
     panicked |-> d.panicked, net |-> IF d.sends = 0 THEN "unused" ELSE env.net,
     sent |-> d.sent, served |-> d.served, response |-> d.response, error |-> d.error]

\* pub fn headers(mut self, headers: HashMap<String, String>) -> Self
headers(maps) ==
    \E h \in maps :
        /\ self' = set_headers(self, h)
        /\ fresh' = "no"
        /\ call' = NoCall

\* pub fn timeout(mut self, seconds: u64) -> Self
timeout(secs) ==
    \E seconds \in secs :
        /\ self' = set_timeout(self, seconds)
        /\ fresh' = "no"
        /\ call' = NoCall

\* pub fn allow_redirects(mut self, allow: bool) -> Self
allow_redirects ==
    \E allow \in BOOLEAN :
        /\ self' = set_allow_redirects(self, allow)
        /\ fresh' = "no"
        /\ call' = NoCall

\* pub fn max_redirects(mut self, max: usize) -> Self
max_redirects ==
    \E max \in RedirectCounts :
        /\ self' = set_max_redirects(self, max)
        /\ fresh' = "no"
        /\ call' = NoCall

\* pub fn get(&mut self, url)
get(urls, nets) ==
    \E url \in urls, env \in Envs(self, nets) :
        LET d == _request(self, "GET", url, None, None, env)
        IN /\ self' = d.self
           /\ fresh' = "no"
           /\ call' = Called("get", "GET", env, d)

\* pub fn post(&mut self, url, data, json)
post(urls, nets) ==
    \E url \in urls, data \in DataArgs, json_arg \in JsonArgs, env \in Envs(self, nets) :
        LET d == _request(self, "POST", url, data, json_arg, env)
        IN /\ self' = d.self
           /\ fresh' = "no"
           /\ call' = Called("post", "POST", env, d)

\* pub fn put(&mut self, url, data, json)
put(urls, nets) ==
    \E url \in urls, data \in DataArgs, json_arg \in JsonArgs, env \in Envs(self, nets) :
        LET d == _request(self, "PUT", url, data, json_arg, env)
        IN /\ self' = d.self
           /\ fresh' = "no"
           /\ call' = Called("put", "PUT", env, d)

\* a variant of delete that forwards a form payload
delete_with_payload(urls, nets) ==
    \E url \in urls, env \in Envs(self, nets) :
        LET d == _request(self, "DELETE", url, Some("key1=value1"), None, env)
        IN /\ self' = d.self
           /\ fresh' = "no"
           /\ call' = Called("delete", "DELETE", env, d)

\* pub fn delete(&mut self, url)
delete(urls, nets) ==
    \E url \in urls, env \in Envs(self, nets) :
        LET d == _request(self, "DELETE", url, None, None, env)
        IN /\ self' = d.self
           /\ fresh' = "no"
           /\ call' = Called("delete", "DELETE", env, d)

\* the dispatcher itself, handed any method string and any payload
dispatch(urls, nets) ==
    \E method \in Methods, url \in urls, data \in DataArgs, json_arg \in JsonArgs,
       env \in Envs(self, nets) :
        LET d == _request(self, method, url, data, json_arg, env)
        IN /\ self' = d.self
           /\ fresh' = "no"
           /\ call' = Called("_request", method, env, d)

(* ---------------------------- specifications --------------------------- *)

\* a client from PeakRequests::new() or PeakRequests::default(), untouched
Init ==
    /\ \/ self = new /\ fresh = "new"
       \/ self = default /\ fresh = "default"
    /\ call = NoCall

\* Headers and lazy construction: every header map, both timeouts, and the four
\* verb methods with every payload and network outcome, against a URL that
\* does not redirect.
Next ==
    \/ headers(HeaderMaps)
    \/ timeout(Timeouts)
    \/ get({0}, NetOutcomes)
    \/ post({0}, NetOutcomes)
    \/ put({0}, NetOutcomes)
    \/ delete({0}, NetOutcomes)

Spec == Init /\ [][Next]_vars

\* maps of at most one entry: none, a valid one, an invalid name or value
SmallHeaderMaps == {h \in HeaderMaps : Cardinality(DOMAIN h) <= 1}

\* Configuration: the four builders interleaved with get and delete, under
\* every network outcome, against a URL that redirects once and one that does not.
NextConfig ==
    \/ headers(SmallHeaderMaps)
    \/ timeout(Timeouts)
    \/ allow_redirects
    \/ max_redirects
    \/ get({0, 1}, NetOutcomes)
    \/ delete({0}, NetOutcomes)

SpecConfig == Init /\ [][NextConfig]_vars

\* The dispatcher: every method string, payload combination and network
\* outcome, on clients whose construction succeeds or fails.
NextDispatch ==
    \/ headers(SmallHeaderMaps)
    \/ dispatch({0}, {"ok"})
    \/ get({0}, NetOutcomes)
    \/ post({0}, NetOutcomes)
    \/ put({0}, NetOutcomes)
    \/ delete({0}, NetOutcomes)

SpecDispatch == Init /\ [][NextDispatch]_vars

\* Redirects: both redirect builders and URLs that start redirect chains, on a
\* network that answers.
NextRedirect ==
    \/ allow_redirects
    \/ max_redirects
    \/ get(Urls, {"ok"})
    \/ post(Urls, {"ok"})

SpecRedirect == Init /\ [][NextRedirect]_vars

(* -------------------------------- claims ------------------------------- *)

SupportedMethods == {"GET", "POST", "PUT", "DELETE"}
ConstructionErrors ==
    {"invalid HTTP header name", "failed to parse header value", "builder error"}
Unsupported == call.op # "none" /\ call.method \notin SupportedMethods

\* C1 as stated: a dispatch with a verb outside GET/POST/PUT/DELETE returns the
\* unsupported-method error without attempting construction of the handle and
\* without any request reaching the server.
C1_UnsupportedWithoutConstruction ==
    Unsupported =>
        /\ call.error = Some("unsupported HTTP method")
        /\ ~call.init_called
        /\ call.sent = None /\ call.sends = 0 /\ call.served = 0

\* C1 amended: a dispatch with a verb outside GET/POST/PUT/DELETE returns an
\* error and no response, hands nothing to send() and no request reaches the
\* server. With the handle already built the error is the unsupported-method
\* error; with no handle, construction is attempted first, and the call returns
\* the unsupported-method error with the handle now built, or the construction
\* error with no handle.
C1_UnsupportedNoIO ==
    Unsupported =>
        /\ call.sent = None /\ call.sends = 0 /\ call.served = 0
        /\ call.response = None
        /\ ~call.panicked
        /\ IF self.client # None
           THEN call.error = Some("unsupported HTTP method")
           ELSE call.init_called /\ call.error \in {Some(e) : e \in ConstructionErrors}

\* an unsupported verb on a client without a handle built the handle
C1_Witness ==
    /\ Unsupported
    /\ call.method = "get"
    /\ call.init_called
    /\ self.client # None
    /\ call.error = Some("unsupported HTTP method")

\* C2: once the handle is built no call replaces it, no later verb call
\* attempts construction, and every later request carries the headers and
\* timeout of the handle and is answered under the handle's redirect policy,
\* whatever the builders have changed since.
C2_HandleReused ==
    [][self.client # None =>
        /\ self'.client = self.client
        /\ call'.op # "none" =>
            /\ ~call'.init_called
            /\ call'.sent # None
            /\ LET c == Unwrap(self.client)
                   r == Unwrap(call'.sent)
                   io == send_and_read(c, r, call'.net)
               IN /\ r.headers = c.default_headers
                  /\ r.timeout = c.timeout
                  /\ call'.served = io.served
                  /\ call'.response = io.response
                  /\ call'.error = io.error]_vars

\* a request sent through a handle whose headers, timeout and redirect policy
\* all differ from the configuration of the moment
C2_Witness ==
    /\ self.client # None
    /\ call.op = "get" /\ ~call.init_called /\ call.response # None
    /\ Unwrap(call.sent).url = 1
    /\ Unwrap(self.client).timeout # self.timeout
    /\ Unwrap(self.client).redirect # redirect_policy(self)
    /\ Unwrap(self.client).default_headers = EmptyMap
    /\ self.headers = [k \in {"Accept"} |-> "x"]

\* C3 as stated: a client nothing has acted on yet, from new() or from
\* default(), has no handle, no headers, no timeout, redirects allowed and a
\* maximum of 10 redirects.
C3_FreshHasDefaults ==
    fresh # "no" =>
        /\ self.client = None
        /\ self.headers = EmptyMap
        /\ self.timeout = None
        /\ self.allow_redirects = TRUE
        /\ self.max_redirects = 10

\* C4: a request to a URL starting a redirect chain of length L >= 1, through a
\* handle built by that call from the configuration: with redirects disallowed
\* the response is the first hop's (302, the requested URL) and one request is
\* served, whatever max_redirects is; with redirects allowed and
\* max_redirects < L the call fails with the redirect-limit error; otherwise it
\* returns the final response, whose url is the end of the chain.
C4_RedirectOutcome ==
    (call.sent # None /\ call.init_called /\ Unwrap(call.sent).url >= 1) =>
        LET L == Unwrap(call.sent).url
        IN IF ~self.allow_redirects
           THEN /\ call.served = 1
                /\ call.response =
                       Some([status_code |-> 302, text |-> "body", url |-> L,
                             headers |-> [location |-> ToString(L - 1)]])
           ELSE IF self.max_redirects < L
           THEN /\ call.response = None
                /\ call.error = Some("too many redirects")
           ELSE /\ call.error = None
                /\ call.served = L + 1
                /\ call.response # None
                /\ Unwrap(call.response).status_code = 200
                /\ Unwrap(call.response).url = 0

\* redirects disallowed with a limit that would have covered the chain
C4_Witness ==
    /\ call.sent # None /\ call.init_called
    /\ Unwrap(call.sent).url = 2
    /\ ~self.allow_redirects /\ self.max_redirects = 2
    /\ call.response # None /\ Unwrap(call.response).status_code = 302

\* C5 as stated: the default headers on a request sent through a handle built
\* by that call are exactly the entries of the configured map (the map of the
\* last headers(...) call): every entry of it under its name, and nothing else.
C5_ExactlyLastMap ==
    (call.sent # None /\ call.init_called) =>
        LET attached == Unwrap(call.sent).headers
        IN /\ \A k \in DOMAIN self.headers :
                  /\ Unwrap(HeaderName_from_bytes(k)) \in DOMAIN attached
                  /\ attached[Unwrap(HeaderName_from_bytes(k))] = self.headers[k]
           /\ \A n \in DOMAIN attached :
                  \E k \in DOMAIN self.headers : HeaderName_from_bytes(k) = Some(n)

\* C6 as stated: a request of post or put never has both a form encoding and a
\* JSON encoding applied, and it has a body exactly when one was applied.
C6_AtMostOnePayload ==
    (call.op \in {"post", "put"} /\ call.sent # None) =>
        /\ Cardinality(Unwrap(call.sent).applied) <= 1
        /\ (Unwrap(call.sent).applied = {}) = (Unwrap(call.sent).body = None)

\* C7 as stated: a request the dispatcher sends with GET or DELETE carries no
\* body, whatever payload it was handed.
C7_GetDeleteNoBody ==
    (call.sent # None /\ call.method \in {"GET", "DELETE"}) =>
        Unwrap(call.sent).body = None

\* C7 amended: the requests of the public get and delete methods carry no body,
\* no payload encoding and no content type (they hand the dispatcher no
\* payload; the dispatcher itself attaches a payload it is handed whatever the
\* verb).
C7_PublicGetDeleteNoBody ==
    (call.sent # None /\ call.op \in {"get", "delete"}) =>
        /\ Unwrap(call.sent).body = None
        /\ Unwrap(call.sent).applied = {}
        /\ Unwrap(call.sent).content_type = None

\* a delete that was sent and answered
C7_Witness ==
    /\ call.op = "delete" /\ call.sent # None
    /\ call.response # None

\* C8: a verb call invokes send() at most once and returns either a response
\* with status, text, headers and url, or an error, never both and never
\* neither; a failed send or a failed body read gives an error and no response
\* after exactly one send.
C8_NoRetryNoPartial ==
    call.op # "none" =>
        /\ call.sends <= 1
        /\ (call.response = None) # (call.error = None)
        /\ call.response # None =>
               /\ DOMAIN Unwrap(call.response) = {"status_code", "text", "headers", "url"}
               /\ Unwrap(call.response).text = "body"
               /\ call.sends = 1 /\ call.net = "ok"
        /\ call.net \in {"send_error", "body_error"} =>
               /\ call.response = None /\ call.error # None
               /\ call.sends = 1 /\ call.served <= 1

\* the body read failed after the server had answered the one request
C8_Witness ==
    /\ call.net = "body_error"
    /\ call.served = 1 /\ call.sends = 1
    /\ call.error = Some("error decoding response body")

\* C9: a call that returns a construction error handed nothing to send(), no
\* request reached the server and the client has no handle; and every verb call
\* on a client with no handle attempts construction, a handle it leaves behind
\* being one built from the configuration of that moment.
C9_FailedConstructionNotCached ==
    /\ [](call.error \in {Some(e) : e \in ConstructionErrors} =>
            /\ call.init_called
            /\ call.sent = None /\ call.sends = 0 /\ call.served = 0
            /\ call.response = None
            /\ self.client = None)
    /\ [][(self.client = None /\ call'.op # "none") =>
            /\ call'.init_called
            /\ self'.client # None =>
                   \E env \in Envs(self, {"ok"}) :
                       /\ init_client(self, env).ok
                       /\ self'.client = init_client(self, env).self.client
                       /\ call'.error \notin {Some(e) : e \in ConstructionErrors}]_vars

\* a construction that failed on the headers left no handle
C9_Witness ==
    /\ call.op = "get" /\ call.init_called
    /\ call.error = Some("failed to parse header value")
    /\ self.client = None

\* C10: no dispatch reaches the unwrap of the handle with no handle there.
C10_UnwrapNeverPanics == ~call.panicked

\* a dispatch that built the handle from configured headers and went on to send
C10_Witness ==
    /\ call.init_called /\ ~call.panicked
    /\ self.client # None /\ call.sent # None
    /\ self.headers # EmptyMap

====
